---- MODULE Spec2Model ----
(***************************************************************************)
(* log-pipeline: the ordered, deduplicating log ingestion path.            *)
(*                                                                         *)
(*   fluent-bit Lua filter make_key  ->  Kafka topic (keyed partitions)    *)
(*   -> ClickHouse Kafka engine table logs.src_kafka_app_logs              *)
(*   -> materialized view logs.mv_app_logs_consume                         *)
(*   -> logs.fact_app_log (ReplacingMergeTree, TTL)                        *)
(*                                                                         *)
(* Strings are sequences of one-character strings, so that concatenation,  *)
(* toString and the parsers are computed character by character.           *)
(* Time is counted in ticks; TicksPerDay ticks make one calendar day.      *)
(***************************************************************************)
EXTENDS Integers, Sequences, FiniteSets, TLC

VARIABLES
  rt_in, rt_out,            \* make_key: the last call's arguments and result
  tf_in, tf_out,            \* materialized view: the last source row and the rows selected
  tf_err,                   \* materialized view: whether the SELECT of the last call raised
  log,                      \* transport: partition -> sequence of messages
  committed,                \* consumer group: partition -> committed offset
  wstate, batch,            \* consumer workers: state and in-flight batch
  store,                    \* logs.fact_app_log: resident rows, in insertion order
  now,                      \* wall clock, in ticks
  events,                   \* publishes, faults and clock ticks so far
  seen,                     \* history: positions a worker has read into a block
  appends,                  \* history: position -> inserts of a block with its row (capped at 2)
  origins,                  \* history: for each resident row, the position of its message
  parts,                    \* logs.fact_app_log: for each resident row, its part (id) and the
                            \* time of the merge that wrote the part (at)
  stopping,                 \* whether the shutdown signal has reached the workers
  raised,                   \* history: the workers whose read has failed on the error ceiling
  ch,                       \* ClickHouse: the schema objects that exist
  es,                       \* Elasticsearch: the objects that exist
  kc,                       \* Kafka Connect: the connectors that exist
  resp,                     \* provisioning: the outcome of the last operation
  inflight,                 \* admin server: the handlers waiting for their downstream request
  cors_in, cors_out,        \* the cors middleware: the request it is given, its response
  ClientConfig,             \* frontend: the ClientConfig object (ready, value)
  calls,                    \* frontend: each call of loadClientConfig, where it stands
  fetches,                  \* frontend: fetches of /client-config.json issued so far
  served                    \* frontend: the body served at /client-config.json

vars == <<rt_in, rt_out, tf_in, tf_out, tf_err, log, committed, wstate, batch, store,
          parts, stopping, now, events, seen, appends, origins, raised, ch, es, kc, resp,
          inflight, cors_in, cors_out, ClientConfig, calls, fetches, served>>

routeVars == <<rt_in, rt_out>>
transformVars == <<tf_in, tf_out, tf_err>>
adminVars == <<ch, es, kc, resp, inflight>>
corsVars == <<cors_in, cors_out>>
clientVars == <<ClientConfig, calls, fetches, served>>
webVars == <<corsVars, clientVars>>
pipeVars == <<log, committed, wstate, batch, store, parts, stopping, now, events, seen,
             appends, origins, raised>>

---------------------------------------------------------------------------
(* Strings *)

Digits == <<"0", "1", "2", "3", "4", "5", "6", "7", "8", "9">>

IsDigit(c) == \E i \in 1..10 : Digits[i] = c

DigitVal(c) == (CHOOSE i \in 1..10 : Digits[i] = c) - 1

RECURSIVE toStringNat(_)
toStringNat(n) ==
  IF n < 10 THEN <<Digits[n + 1]>>
  ELSE toStringNat(n \div 10) \o <<Digits[(n % 10) + 1]>>

\* toString of an integer: decimal, a leading '-' for a negative number
toString(n) == IF n < 0 THEN <<"-">> \o toStringNat(0 - n) ELSE toStringNat(n)

\* the value of a sequence of decimal digits
RECURSIVE DigitsValue(_)
DigitsValue(s) ==
  IF s = <<>> THEN 0
  ELSE 10 * DigitsValue(SubSeq(s, 1, Len(s) - 1)) + DigitVal(s[Len(s)])

AllDigits(s) == s /= <<>> /\ \A i \in 1..Len(s) : IsDigit(s[i])

concat3(a, b, c) == a \o b \o c

---------------------------------------------------------------------------
(* Lua values and the fluent-bit filter make_key *)

LuaNil == [t |-> "nil", s |-> <<>>, n |-> 0, b |-> FALSE]
LuaBool(x) == [t |-> "boolean", s |-> <<>>, n |-> 0, b |-> x]
LuaStr(x) == [t |-> "string", s |-> x, n |-> 0, b |-> FALSE]
LuaNum(x) == [t |-> "number", s |-> <<>>, n |-> x, b |-> FALSE]
LuaTable == [t |-> "table", s |-> <<>>, n |-> 0, b |-> FALSE]

\* a or b: b when a is nil or false, a otherwise (an empty string is true)
LuaOr(a, b) ==
  IF a.t = "nil" \/ (a.t = "boolean" /\ a.b = FALSE) THEN b ELSE a

\* the operands the .. operator accepts: strings and numbers
LuaConcatable(a) == a.t \in {"string", "number"}

LuaToStr(a) == IF a.t = "number" THEN toString(a.n) ELSE a.s

\* a .. b (defined when both operands are concatenable)
LuaConcat(a, b) == LuaStr(LuaToStr(a) \o LuaToStr(b))

UnknownHost == <<"u", "n", "k", "n", "o", "w", "n", "-", "h", "o", "s", "t">>
UnknownApp == <<"u", "n", "k", "n", "o", "w", "n", "-", "a", "p", "p">>
Colon == <<":">>

RecordFields == {"host", "app", "key", "log"}

\* make_key with an empty string taken for an absent field
LuaOrNonEmpty(a, b) ==
  IF a.t = "nil" \/ (a.t = "boolean" /\ a.b = FALSE) \/ (a.t = "string" /\ a.s = <<>>)
  THEN b ELSE a

make_key_EmptyIsAbsent(tag, ts, record) ==
  LET host == LuaOrNonEmpty(record["host"], LuaStr(UnknownHost))
      app == LuaOrNonEmpty(record["app"], LuaStr(UnknownApp))
  IN IF LuaConcatable(host) /\ LuaConcatable(app)
     THEN [called |-> TRUE, error |-> FALSE, code |-> 1, ts |-> ts,
           record |-> [record EXCEPT
                         !["key"] = LuaConcat(LuaConcat(host, LuaStr(Colon)), app)]]
     ELSE [called |-> TRUE, error |-> TRUE, code |-> 0, ts |-> ts,
           record |-> record]

\* function make_key(tag, ts, record): returns 1, ts, record with record["key"]
\* set; a concatenation of a boolean or a table raises a Lua error.
make_key(tag, ts, record) ==
  LET host == LuaOr(record["host"], LuaStr(UnknownHost))
      app == LuaOr(record["app"], LuaStr(UnknownApp))
  IN IF LuaConcatable(host) /\ LuaConcatable(app)
     THEN [called |-> TRUE, error |-> FALSE, code |-> 1, ts |-> ts,
           record |-> [record EXCEPT
                         !["key"] = LuaConcat(LuaConcat(host, LuaStr(Colon)), app)]]
     ELSE [called |-> TRUE, error |-> TRUE, code |-> 0, ts |-> ts,
           record |-> record]

---------------------------------------------------------------------------
(* ClickHouse functions used by the materialized view *)

Null == [null |-> TRUE, v |-> 0]
NotNull(x) == [null |-> FALSE, v |-> x]

\* A date-time text is written here as its count of whole ticks (seconds) in
\* decimal digits, optionally followed by '.' and the digits of its sub-second
\* part. DotAt: the index of the first '.', 0 when there is none.
DotAt(s) ==
  IF \E k \in 1..Len(s) : s[k] = "."
  THEN CHOOSE k \in 1..Len(s) : s[k] = "." /\ \A j \in 1..(k - 1) : s[j] /= "."
  ELSE 0

\* the digits before the '.', and the digits after it
WholePart(s) == IF DotAt(s) = 0 THEN s ELSE SubSeq(s, 1, DotAt(s) - 1)
FractionPart(s) == IF DotAt(s) = 0 THEN <<>> ELSE SubSeq(s, DotAt(s) + 1, Len(s))

IsDateTimeText(s) ==
  /\ AllDigits(WholePart(s))
  /\ DotAt(s) /= 0 => AllDigits(FractionPart(s))

\* parseDateTimeBestEffortOrNull: NULL when the text is no date-time; the result
\* is a DateTime, which holds whole seconds: a sub-second part is read and dropped
parseDateTimeBestEffortOrNull(s) ==
  IF IsDateTimeText(s) THEN NotNull(DigitsValue(WholePart(s))) ELSE Null

\* coalesce(a, b): the first argument that is not NULL
coalesce(a, b) == IF a.null THEN b ELSE a

RECURSIVE StripZeros(_)
StripZeros(s) ==
  IF Len(s) > 1 /\ s[1] = "0" THEN StripZeros(Tail(s)) ELSE s

\* s <= t for two digit sequences of the same length, most significant first
RECURSIVE DigitsLeq(_, _)
DigitsLeq(s, t) ==
  IF s = <<>> THEN TRUE
  ELSE IF DigitVal(s[1]) < DigitVal(t[1]) THEN TRUE
  ELSE IF DigitVal(s[1]) > DigitVal(t[1]) THEN FALSE
  ELSE DigitsLeq(Tail(s), Tail(t))

Int32MaxDigits == <<"2", "1", "4", "7", "4", "8", "3", "6", "4", "7">>
Int32MinDigits == <<"2", "1", "4", "7", "4", "8", "3", "6", "4", "8">>

\* the magnitude d (digits) with the given sign is an Int32
FitsInt32(d, negative) ==
  LET z == StripZeros(d)
  IN \/ Len(z) < 10
     \/ Len(z) = 10 /\ DigitsLeq(z, IF negative THEN Int32MinDigits ELSE Int32MaxDigits)

\* the negated value of a digit sequence, accumulated below zero so that
\* -2147483648 is reached without leaving the 32-bit range
RECURSIVE NegDigitsValue(_)
NegDigitsValue(s) ==
  IF s = <<>> THEN 0
  ELSE 10 * NegDigitsValue(SubSeq(s, 1, Len(s) - 1)) - DigitVal(s[Len(s)])

\* toInt32OrZero: an optional sign and decimal digits, the whole text, in the
\* Int32 range; 0 for anything else
toInt32OrZero(s) ==
  LET signed == s /= <<>> /\ s[1] \in {"-", "+"}
      negative == s /= <<>> /\ s[1] = "-"
      d == IF signed THEN Tail(s) ELSE s
  IN IF AllDigits(d) /\ FitsInt32(d, negative)
     THEN IF negative THEN NegDigitsValue(StripZeros(d)) ELSE DigitsValue(StripZeros(d))
     ELSE 0

\* the functions a server can hold under a name the view calls and ClickHouse
\* does not define: none, as on the server the repository provisions, or a
\* function tryParseJson that someone has created there
UserFunctions == {{}, {"tryParseJson"}}

\* tryParseJson(attrs): neither ClickHouse nor the repository defines a function
\* of this name, so the call is an error (UNKNOWN_FUNCTION) on a server that
\* holds none; where a function of the name has been created its value is that
\* function's, which the model keeps as the unevaluated application
tryParseJson(s, functions) ==
  [error |-> "tryParseJson" \notin functions,
   v |-> [fn |-> "tryParseJson", arg |-> s]]

\* now64(3): the wall clock at the insert
now64(clock) == clock

---------------------------------------------------------------------------
(* logs.src_kafka_app_logs and logs.mv_app_logs_consume *)

\* ticks in one calendar day; the retention of logs.fact_app_log in days
TicksPerDay == 2
TTLDays == 14
TTLTicks == TTLDays * TicksPerDay

toDate(ts) == ts \div TicksPerDay
toYYYYMMDD(ts) == ts \div TicksPerDay

\* the keys _topic, _offset, _partition, _timestamp of a JSON payload: absent
\* (Null) or present with a value
NoKeys == [_topic |-> [null |-> TRUE, v |-> <<>>], _offset |-> Null, _partition |-> Null, _timestamp |-> Null]

\* the value a JSONEachRow column takes: the payload's, the type's default when
\* the payload has no such key
ColumnOr(key, default) == IF key.null THEN default ELSE key.v

\* one row of the Kafka engine table for a message read at (partition, offset)
\* with receipt time timestamp. _topic, _offset, _partition and _timestamp are
\* declared in the column list like ts .. attrs, which hides the virtual columns
\* of the same names: all twelve columns are filled from the JSON payload, and
\* the position and receipt time of the message reach no column
KafkaRow(payload, partition, offset, timestamp) ==
  [ts |-> payload.ts, level |-> payload.level, env |-> payload.env,
   app |-> payload.app, host |-> payload.host, code |-> payload.code,
   message |-> payload.message, attrs |-> payload.attrs,
   _topic |-> ColumnOr(payload.keys._topic, <<>>),
   _offset |-> ColumnOr(payload.keys._offset, 0),
   _partition |-> ColumnOr(payload.keys._partition, 0),
   _timestamp |-> ColumnOr(payload.keys._timestamp, 0)]

\* SELECT list of the view: ts
mv_ts(r) == coalesce(parseDateTimeBestEffortOrNull(r.ts), NotNull(r._timestamp))

\* SELECT list of the view: dedup_token
mv_dedup_token(r) == concat3(toString(r._partition), <<"-">>, toString(r._offset))

\* WHERE ts IS NOT NULL OR _timestamp IS NOT NULL: ts is the SELECT list's ts, and
\* _timestamp is a column of type DateTime, which holds no NULL
mv_where(r) == ~mv_ts(r).null \/ ~NotNull(r._timestamp).null

\* the row the view selects from a source row, as stored in logs.fact_app_log
\* (date is MATERIALIZED toDate(ts))
mv_row(r, clock, functions) ==
  [ts |-> mv_ts(r).v, date |-> toDate(mv_ts(r).v),
   level |-> r.level, env |-> r.env, app |-> r.app, host |-> r.host,
   code |-> toInt32OrZero(r.code), message |-> r.message,
   attrs |-> tryParseJson(r.attrs, functions).v,
   dedup_token |-> mv_dedup_token(r),
   ingest_time |-> now64(clock)]

\* the view applied to one source row on a server that holds these functions:
\* an error and no row when the SELECT cannot be evaluated, the rows it inserts
\* otherwise
mv_app_logs_consume(r, clock, functions) ==
  IF tryParseJson(r.attrs, functions).error
  THEN [error |-> TRUE, rows |-> <<>>]
  ELSE [error |-> FALSE,
        rows |-> IF mv_where(r) THEN <<mv_row(r, clock, functions)>> ELSE <<>>]

---------------------------------------------------------------------------
(* Bounds of the model *)

NumPartitions == 2        \* partitions of the topic
NumWorkers == 2           \* consumers of the Kafka engine table
MaxEvents == 3            \* publishes, failed reads and inserts, crashes and clock ticks in a run
MaxBatch == 2             \* messages one poll returns at most

\* input_format_allow_errors_num = 100
AllowErrorsNum == 100

\* input_format_allow_errors_ratio = 0.05, as a fraction
AllowErrorsRatioNum == 5
AllowErrorsRatioDen == 100

Partitions == 0..(NumPartitions - 1)
Workers == 1..NumWorkers
Offsets == 0..MaxEvents

Min(a, b) == IF a < b THEN a ELSE b

---------------------------------------------------------------------------
(* Producers: the shipper's records, routed by make_key and keyed into the topic *)

Str_h1 == <<"h", "1">>
Str_a1 == <<"a", "1">>
Str_info == <<"i", "n", "f", "o">>
Str_prod == <<"p", "r", "o", "d">>
Str_200 == <<"2", "0", "0">>

Alphabet == <<"0", "1", "2", "3", "4", "5", "6", "7", "8", "9",
              "a", "b", "c", "d", "e", "f", "g", "h", "i", "j", "k", "l", "m",
              "n", "o", "p", "q", "r", "s", "t", "u", "v", "w", "x", "y", "z",
              "-", ":", "+", "{", "}", ",", "\"", " ">>

Ord(c) == CHOOSE i \in 1..Len(Alphabet) : Alphabet[i] = c

RECURSIVE SumOrd(_)
SumOrd(s) == IF s = <<>> THEN 0 ELSE Ord(s[1]) + SumOrd(Tail(s))

\* the transport's partitioner: a hash of the key modulo the partition count
assign(key, partitionCount) == SumOrd(key) % partitionCount

\* a shipper record as make_key receives it
ShipRecord(host, app, text) ==
  [f \in RecordFields |->
     CASE f = "host" -> host
       [] f = "app" -> app
       [] f = "log" -> LuaStr(text)
       [] OTHER -> LuaNil]

\* what the producers of the model ship: the record, the payload's ts and code,
\* whether the payload carries keys named like the declared columns (one
\* carries _partition = 1 and _offset = 5), and whether the payload reaches the
\* topic as one JSON row (wellformed) or as rows of text that are no JSON rows
\* (errors of them: one, or one more than input_format_allow_errors_num)
Shipments ==
  { [record |-> ShipRecord(LuaStr(Str_h1), LuaStr(Str_a1), <<"m">>),
     ts |-> <<"0">>, code |-> Str_200, keys |-> NoKeys, wellformed |-> TRUE, errors |-> 0],
    [record |-> ShipRecord(LuaStr(Str_h1), LuaStr(Str_a1), <<"m">>),
     ts |-> <<"0">>, code |-> Str_200, keys |-> [NoKeys EXCEPT !._partition = NotNull(1), !._offset = NotNull(5)],
     wellformed |-> TRUE, errors |-> 0],
    [record |-> ShipRecord(LuaStr(<<"h", "2">>), LuaStr(Str_a1), <<"m">>),
     ts |-> <<"1">>, code |-> <<"x">>, keys |-> NoKeys, wellformed |-> TRUE, errors |-> 0],
    [record |-> ShipRecord(LuaNil, LuaNil, <<"m">>),
     ts |-> <<"x">>, code |-> <<>>, keys |-> NoKeys, wellformed |-> FALSE, errors |-> 1],
    [record |-> ShipRecord(LuaNil, LuaNil, <<"m">>),
     ts |-> <<"x">>, code |-> <<>>, keys |-> NoKeys, wellformed |-> FALSE,
     errors |-> AllowErrorsNum + 1] }

\* a field of the JSON payload: the record's string, '' when the record has none
PayloadField(v) == IF v.t = "string" THEN v.s ELSE <<>>

\* the JSON payload of a routed record, by column of logs.src_kafka_app_logs
Payload(sh, routed) ==
  [ts |-> sh.ts, level |-> Str_info, env |-> Str_prod,
   app |-> PayloadField(routed["app"]), host |-> PayloadField(routed["host"]),
   code |-> sh.code, message |-> PayloadField(routed["log"]), attrs |-> <<"{", "}">>,
   keys |-> sh.keys]

\* a producer routes one record and publishes it under its key
Produce(sh) ==
  LET r == make_key(<<"t">>, now, sh.record)
      key == r.record["key"].s
      p == assign(key, NumPartitions)
  IN /\ events < MaxEvents
     /\ ~r.error
     /\ events' = events + 1
     /\ log' = [log EXCEPT ![p] = Append(@,
                  [key |-> key, payload |-> Payload(sh, r.record),
                   wellformed |-> sh.wellformed, errors |-> sh.errors,
                   timestamp |-> now])]
     /\ UNCHANGED <<committed, wstate, batch, store, parts, now, seen, appends>>
     /\ UNCHANGED <<webVars, adminVars, routeVars, transformVars, origins, raised, stopping>>

---------------------------------------------------------------------------
(* Consumers: the Kafka engine table read through the materialized view *)

\* the worker a partition is assigned to (the consumer group's assignment)
AssignedTo(p) == (p % NumWorkers) + 1

NoBatch == [p |-> 0, lo |-> 0, n |-> 0, i |-> 0]

\* the message at an offset of a partition
MsgAt(p, o) == log[p][o + 1]

\* the JSONEachRow parser counts the malformed rows of one message (it is reset
\* for every message) and raises at a malformed row when the count is above
\* input_format_allow_errors_num and the count over the rows read so far is above
\* input_format_allow_errors_ratio; a message of the model is one JSON row or
\* malformed rows only, so k rows are read at its k-th malformed row
CeilingExceeded(m) ==
  \E k \in 1..m.errors :
    /\ k > AllowErrorsNum
    /\ k * AllowErrorsRatioDen > AllowErrorsRatioNum * k

\* the batch taken from its last offset down to its first
BatchOffset_Reversed(b) == b.lo + (b.n - 1 - b.i)

\* the offset a worker reads next within its batch
BatchOffset(b) == b.lo + b.i

CountUp(c) == IF c < 2 THEN c + 1 ELSE 2

\* the consumers that have a batch in flight. kafka_num_consumers is set and
\* kafka_thread_per_consumer is not: the consumers of the table are read in one
\* pass, their blocks go through the view in it, and the offsets of all of them
\* are committed when the whole pass has gone through
InPass == {w \in Workers : wstate[w] \in {"PROCESSING", "COMMITTING"}}

\* the states of the workers when the pass is aborted: an exception raised for
\* one consumer ends the pass for all of them
AbortedStates == [w \in Workers |-> IF w \in InPass THEN "FETCHING" ELSE wstate[w]]

\* the batches of the workers when the pass is aborted: none is committed
AbortedBatches == [w \in Workers |-> IF w \in InPass THEN NoBatch ELSE batch[w]]

\* the view is attached to the Kafka table and the consumer starts to poll
Start(w) ==
  /\ wstate[w] = "IDLE"
  /\ ~stopping
  /\ wstate' = [wstate EXCEPT ![w] = "FETCHING"]
  /\ UNCHANGED <<log, committed, batch, store, parts, now, events, seen, appends>>
  /\ UNCHANGED <<webVars, adminVars, routeVars, transformVars, origins, raised, stopping>>

\* poll that starts one message after the committed offset
Fetch_AheadOfCommitted(w, p, n) ==
  /\ wstate[w] = "FETCHING"
  /\ ~stopping
  /\ \A w2 \in Workers : wstate[w2] /= "COMMITTING"
  /\ AssignedTo(p) = w
  /\ n >= 1
  /\ n <= Min(MaxBatch, Len(log[p]) - committed[p] - 1)
  /\ batch' = [batch EXCEPT ![w] = [p |-> p, lo |-> committed[p] + 1, n |-> n, i |-> 0]]
  /\ wstate' = [wstate EXCEPT ![w] = "PROCESSING"]
  /\ UNCHANGED <<log, committed, store, parts, now, events, seen, appends>>
  /\ UNCHANGED <<webVars, adminVars, routeVars, transformVars, origins, raised, stopping>>

\* poll: up to MaxBatch messages of one assigned partition, from the committed
\* offset; the consumers of a pass poll before its commits begin
Fetch(w, p, n) ==
  /\ wstate[w] = "FETCHING"
  /\ ~stopping
  /\ \A w2 \in Workers : wstate[w2] /= "COMMITTING"
  /\ AssignedTo(p) = w
  /\ n >= 1
  /\ n <= Min(MaxBatch, Len(log[p]) - committed[p])
  /\ batch' = [batch EXCEPT ![w] = [p |-> p, lo |-> committed[p], n |-> n, i |-> 0]]
  /\ wstate' = [wstate EXCEPT ![w] = "PROCESSING"]
  /\ UNCHANGED <<log, committed, store, parts, now, events, seen, appends>>
  /\ UNCHANGED <<webVars, adminVars, routeVars, transformVars, origins, raised, stopping>>

\* the next message of the batch holds more malformed rows than the tolerance
\* allows: the parser raises, the pass is aborted for every consumer in it,
\* nothing is committed, and the consumers poll again from the committed offsets
ReadError(w) ==
  LET b == batch[w]
  IN /\ wstate[w] = "PROCESSING"
     /\ ~stopping
     /\ b.i < b.n
     /\ CeilingExceeded(MsgAt(b.p, BatchOffset(b)))
     /\ events < MaxEvents
     /\ events' = events + 1
     /\ wstate' = AbortedStates
     /\ batch' = AbortedBatches
     /\ raised' = raised \cup {w}
     /\ UNCHANGED <<log, committed, store, parts, now, seen, appends>>
     /\ UNCHANGED <<webVars, adminVars, routeVars, transformVars, origins, stopping>>

\* the next message of the batch is read into the block: its JSON row is parsed,
\* its malformed rows are skipped within the tolerance. No message is read once
\* the table is shutting down
Process(w) ==
  LET b == batch[w]
      o == BatchOffset(b)
  IN /\ wstate[w] = "PROCESSING"
     /\ ~stopping
     /\ b.i < b.n
     /\ ~CeilingExceeded(MsgAt(b.p, o))
     /\ seen' = seen \cup {<<b.p, o>>}
     /\ batch' = [batch EXCEPT ![w].i = b.i + 1]
     /\ UNCHANGED <<log, committed, wstate, store, parts, now, events, appends>>
     /\ UNCHANGED <<webVars, adminVars, routeVars, transformVars, origins, raised, stopping>>

\* the server the pipeline runs on: the view is attached to the Kafka table, so
\* the functions its SELECT calls exist there
Attached == {"tryParseJson"}

\* the block of a batch: the rows the view selects from the JSON rows of the
\* first k messages read, in offset order, each with the position of its message
RECURSIVE Block(_, _, _)
Block(b, k, clock) ==
  IF k = 0 THEN <<>>
  ELSE LET o == b.lo + (k - 1)
           m == MsgAt(b.p, o)
           sel == IF m.wellformed
                  THEN CHOOSE rows \in {mv_app_logs_consume(r, clock, Attached).rows :
                                          r \in {KafkaRow(m.payload, b.p, o, m.timestamp)}} : TRUE
                  ELSE <<>>
       IN Block(b, k - 1, clock) \o [j \in 1..Len(sel) |-> [row |-> sel[j], origin |-> <<b.p, o>>]]

\* the batch as read so far is complete: every polled message is read, or the
\* table is shutting down and the block is cut at the messages read
BlockComplete(b) == b.i = b.n \/ stopping

---------------------------------------------------------------------------
(* logs.fact_app_log: ReplacingMergeTree(dedup_token), PARTITION BY, ORDER BY, TTL *)

\* the table partitioned by the day of the insert
PartitionKey_ByIngestTime(r) == toYYYYMMDD(r.ingest_time)

\* PARTITION BY toYYYYMMDD(ts)
PartitionKey(r) == toYYYYMMDD(r.ts)

\* ORDER BY (date, app, host, ts)
SortingKey(r) == <<r.date, r.app, r.host, r.ts>>

\* the version column of ReplacingMergeTree(dedup_token)
Version(r) == r.dedup_token

\* the byte of a character of the alphabet
Byte(c) ==
  CASE c = " " -> 32
    [] c = "\"" -> 34
    [] c = "+" -> 43
    [] c = "," -> 44
    [] c = "-" -> 45
    [] c = "." -> 46
    [] IsDigit(c) -> 48 + DigitVal(c)
    [] c = ":" -> 58
    [] c = "{" -> 123
    [] c = "}" -> 125
    [] OTHER -> 86 + Ord(c)

\* a < b for two String values: byte by byte, a proper prefix first
RECURSIVE StrLess(_, _)
StrLess(a, b) ==
  IF b = <<>> THEN FALSE
  ELSE IF a = <<>> THEN TRUE
  ELSE IF Byte(a[1]) < Byte(b[1]) THEN TRUE
  ELSE IF Byte(a[1]) > Byte(b[1]) THEN FALSE
  ELSE StrLess(Tail(a), Tail(b))

\* the retention counted from the insert time
Expired_ByIngestTime(r, t) == r.ingest_time + TTLTicks <= t

\* TTL ts + INTERVAL 14 DAY DELETE: the row is expired at time t
Expired(r, t) == r.ts + TTLTicks <= t

\* row i is replaced when the rows S are merged: a merged row of the same sorting
\* key has a greater version, or the same version and was inserted later
Replaced(rows, i, S) ==
  \E j \in S :
    /\ j /= i
    /\ SortingKey(rows[j]) = SortingKey(rows[i])
    /\ \/ StrLess(Version(rows[i]), Version(rows[j]))
       \/ Version(rows[i]) = Version(rows[j]) /\ j > i

\* row i is resident after a merge of the rows S at time t: a row the merge does
\* not take stays; a row it takes stays unless it is replaced or its TTL has
\* expired (a merge removes the expired rows of the parts it takes)
Survives(rows, i, S, t) ==
  i \notin S \/ (~Replaced(rows, i, S) /\ ~Expired(rows[i], t))

\* the elements of a sequence at the indices kept, in order
RECURSIVE Pick(_, _, _)
Pick(seq, kept, i) ==
  IF i > Len(seq) THEN <<>>
  ELSE (IF i \in kept THEN <<seq[i]>> ELSE <<>>) \o Pick(seq, kept, i + 1)

StorePartitions == {PartitionKey(store[i]) : i \in 1..Len(store)}

\* a part written by an insert, not by a merge
NoMerge == -1

\* the parts of the rows with every part named by the index of its first row
PartIds(ps) ==
  [i \in 1..Len(ps) |->
     [ps[i] EXCEPT !.id = CHOOSE j \in 1..i :
                            /\ ps[j].id = ps[i].id
                            /\ \A k \in 1..(j - 1) : ps[k].id /= ps[i].id]]

\* the rows of a block as the insert writes them: the block is split by the
\* partition key, and within each partition the rows of one sorting key are
\* collapsed as a merge would collapse them (optimize_on_insert); the TTL is not
\* applied by an insert
Written(blk) ==
  LET rows == [j \in 1..Len(blk) |-> blk[j].row]
      kept == {j \in 1..Len(blk) :
                 ~Replaced(rows, j, {k \in 1..Len(blk) :
                                       PartitionKey(rows[k]) = PartitionKey(rows[j])})}
  IN Pick(blk, kept, 1)

\* the parts an insert creates for the rows it writes after n resident rows: one
\* part for each partition key among them
NewParts(rows, n) ==
  [j \in 1..Len(rows) |->
     [id |-> n + (CHOOSE k \in 1..j :
                    /\ PartitionKey(rows[k]) = PartitionKey(rows[j])
                    /\ \A l \in 1..(k - 1) : PartitionKey(rows[l]) /= PartitionKey(rows[j])),
      at |-> NoMerge]]

\* the block of the batch is inserted through the view: the rows written are
\* appended to logs.fact_app_log as new parts, the resident rows are left as
\* they are, and the consumer waits for the commit of the pass
Insert(w) ==
  LET b == batch[w]
  IN /\ wstate[w] = "PROCESSING"
     /\ BlockComplete(b)
     /\ wstate' = [wstate EXCEPT ![w] = "COMMITTING"]
     /\ \E blk \in {Block(b, b.i, now)} : \E new \in {Written(blk)} :
          /\ store' = store \o [j \in 1..Len(new) |-> new[j].row]
          /\ origins' = origins \o [j \in 1..Len(new) |-> new[j].origin]
          /\ parts' = parts \o NewParts([j \in 1..Len(new) |-> new[j].row], Len(store))
          /\ appends' = [x \in DOMAIN appends |->
                           IF \E j \in 1..Len(blk) : blk[j].origin = x
                           THEN CountUp(appends[x]) ELSE appends[x]]
     /\ UNCHANGED <<log, committed, batch, now, events, seen>>
     /\ UNCHANGED <<webVars, adminVars, routeVars, transformVars, raised, stopping>>

\* the failed insert is swallowed: the consumer goes on to commit the batch
WriteFail_Swallowed(w) ==
  LET b == batch[w]
  IN /\ wstate[w] = "PROCESSING"
     /\ BlockComplete(b)
     /\ Block(b, b.i, now) /= <<>>
     /\ events < MaxEvents
     /\ events' = events + 1
     /\ wstate' = [wstate EXCEPT ![w] = "COMMITTING"]
     /\ UNCHANGED <<log, committed, batch, store, parts, now, seen, appends>>
     /\ UNCHANGED <<webVars, adminVars, routeVars, transformVars, origins, raised, stopping>>

\* the insert of the block fails: nothing of it is written, the exception ends
\* the pass for every consumer in it, nothing is committed, and the consumers
\* poll again from the committed offsets
WriteFail(w) ==
  LET b == batch[w]
  IN /\ wstate[w] = "PROCESSING"
     /\ BlockComplete(b)
     /\ Block(b, b.i, now) /= <<>>
     /\ events < MaxEvents
     /\ events' = events + 1
     /\ wstate' = AbortedStates
     /\ batch' = AbortedBatches
     /\ UNCHANGED <<log, committed, store, parts, now, seen, appends>>
     /\ UNCHANGED <<webVars, adminVars, routeVars, transformVars, origins, raised, stopping>>

\* the offsets of the batch in flight are committed when the server dies
Crash_CommitsBatch(w) ==
  /\ wstate[w] \in {"PROCESSING", "COMMITTING"}
  /\ ~stopping
  /\ events < MaxEvents
  /\ events' = events + 1
  /\ committed' = [committed EXCEPT ![batch[w].p] = batch[w].lo + batch[w].n]
  /\ wstate' = AbortedStates
  /\ batch' = AbortedBatches
  /\ UNCHANGED <<log, store, parts, now, seen, appends>>
  /\ UNCHANGED <<webVars, adminVars, routeVars, transformVars, origins, raised, stopping>>

\* the server dies while worker w has a batch in flight and is started again:
\* its consumers resume from the committed offsets (the model follows a server
\* that is not killed while it shuts down)
Crash(w) ==
  /\ wstate[w] \in {"PROCESSING", "COMMITTING"}
  /\ ~stopping
  /\ events < MaxEvents
  /\ events' = events + 1
  /\ wstate' = AbortedStates
  /\ batch' = AbortedBatches
  /\ UNCHANGED <<log, committed, store, parts, now, seen, appends>>
  /\ UNCHANGED <<webVars, adminVars, routeVars, transformVars, origins, raised, stopping>>

\* the worker goes back to IDLE after a commit instead of polling again
Commit_ToIdle(w) ==
  LET b == batch[w]
  IN /\ wstate[w] = "COMMITTING"
     /\ \A w2 \in Workers : wstate[w2] /= "PROCESSING"
     /\ committed' = [committed EXCEPT ![b.p] = b.lo + b.i]
     /\ wstate' = [wstate EXCEPT ![w] = "IDLE"]
     /\ batch' = [batch EXCEPT ![w] = NoBatch]
     /\ UNCHANGED <<log, store, parts, now, events, seen, appends>>
     /\ UNCHANGED <<webVars, adminVars, routeVars, transformVars, origins, raised, stopping>>

\* the pass went through for every consumer in it: the offsets of the messages
\* read are committed, and the consumer polls again, or stops when the table is
\* shutting down
Commit(w) ==
  LET b == batch[w]
  IN /\ wstate[w] = "COMMITTING"
     /\ \A w2 \in Workers : wstate[w2] /= "PROCESSING"
     /\ committed' = [committed EXCEPT ![b.p] = b.lo + b.i]
     /\ wstate' = [wstate EXCEPT ![w] = IF stopping THEN "STOPPED" ELSE "FETCHING"]
     /\ batch' = [batch EXCEPT ![w] = NoBatch]
     /\ UNCHANGED <<log, store, parts, now, events, seen, appends>>
     /\ UNCHANGED <<webVars, adminVars, routeVars, transformVars, origins, raised, stopping>>

\* the shutdown signal reaches the workers
Shutdown ==
  /\ ~stopping
  /\ stopping' = TRUE
  /\ UNCHANGED <<log, committed, wstate, batch, store, parts, now, events, seen, appends>>
  /\ UNCHANGED <<webVars, adminVars, routeVars, transformVars, origins, raised>>

\* a worker stops on the signal whatever it is doing, dropping its batch
Stop_DropsBatch(w) ==
  /\ stopping
  /\ wstate[w] \in {"IDLE", "FETCHING", "PROCESSING"}
  /\ wstate' = [wstate EXCEPT ![w] = "STOPPED"]
  /\ batch' = [batch EXCEPT ![w] = NoBatch]
  /\ UNCHANGED <<log, committed, store, parts, now, events, seen, appends>>
  /\ UNCHANGED <<webVars, adminVars, routeVars, transformVars, origins, raised, stopping>>

\* a worker with no batch in flight stops on the signal; one with a batch in
\* flight stops by the commit of its pass
Stop(w) ==
  /\ stopping
  /\ wstate[w] \in {"IDLE", "FETCHING"}
  /\ wstate' = [wstate EXCEPT ![w] = "STOPPED"]
  /\ UNCHANGED <<log, committed, batch, store, parts, now, events, seen, appends>>
  /\ UNCHANGED <<webVars, adminVars, routeVars, transformVars, origins, raised, stopping>>

\* a background merge: the server picks some adjacent parts of one physical
\* partition (the parts that hold rows lo..hi of it) and writes them as one
\* part; the other rows stay as they are. A merge takes two parts or more, or
\* one part that holds an expired row; whichever it is, the rows of one sorting
\* key are collapsed and the expired rows of the parts taken are removed
MergePass(d, lo, hi) ==
  LET S == {i \in lo..hi : PartitionKey(store[i]) = d}
      kept == {i \in 1..Len(store) : Survives(store, i, S, now)}
      taken == [i \in 1..Len(store) |->
                  IF i \in S THEN [id |-> 0, at |-> now] ELSE parts[i]]
  IN /\ lo \in 1..Len(store) /\ hi \in lo..Len(store)
     /\ PartitionKey(store[lo]) = d /\ PartitionKey(store[hi]) = d
     /\ \A i \in S, j \in 1..Len(store) : parts[j].id = parts[i].id => j \in S
     /\ \/ Cardinality({parts[i].id : i \in S}) >= 2
        \/ \E i \in S : Expired(store[i], now)
     /\ store' = Pick(store, kept, 1)
     /\ origins' = Pick(origins, kept, 1)
     /\ parts' = PartIds(Pick(taken, kept, 1))
     /\ UNCHANGED <<log, committed, wstate, batch, now, events, seen, appends>>
     /\ UNCHANGED <<webVars, adminVars, routeVars, transformVars, raised, stopping>>

\* the wall clock advances by one tick or to past a whole retention period
Tick(d) ==
  /\ events < MaxEvents
  /\ events' = events + 1
  /\ now' = now + d
  /\ UNCHANGED <<log, committed, wstate, batch, store, parts, seen, appends, origins>>
  /\ UNCHANGED <<webVars, adminVars, routeVars, transformVars, raised, stopping>>

---------------------------------------------------------------------------
(* The pipeline *)

NoCall == [called |-> FALSE, error |-> FALSE, code |-> 0, ts |-> 0,
           record |-> [f \in RecordFields |-> LuaNil]]
NoArgs == [tag |-> <<>>, ts |-> 0, record |-> [f \in RecordFields |-> LuaNil]]
NoSourceRow == [called |-> FALSE, clock |-> 0, functions |-> {},
                position |-> [partition |-> 0, offset |-> 0, timestamp |-> 0],
                keys |-> NoKeys,
                row |-> KafkaRow([ts |-> <<>>, level |-> <<>>, env |-> <<>>, app |-> <<>>,
                                  host |-> <<>>, code |-> <<>>, message |-> <<>>,
                                  attrs |-> <<>>, keys |-> NoKeys], 0, 0, 0)]

IdleRoute == rt_in = NoArgs /\ rt_out = NoCall
IdleTransform == tf_in = NoSourceRow /\ tf_out = <<>> /\ tf_err = FALSE

\* nothing is provisioned and no provisioning operation has run
NoResponse == [op |-> "none", ok |-> FALSE, status |-> 0, requests |-> 0, writes |-> 0, n |-> 0,
               applied |-> FALSE]
IdleAdmin == ch = {} /\ es = {} /\ kc = {} /\ resp = NoResponse /\ inflight = <<>>

PipeInit ==
  /\ log = [p \in Partitions |-> <<>>]
  /\ committed = [p \in Partitions |-> 0]
  /\ wstate = [w \in Workers |-> "IDLE"]
  /\ batch = [w \in Workers |-> NoBatch]
  /\ store = <<>>
  /\ now = 0
  /\ events = 0
  /\ seen = {}
  /\ appends = [x \in Partitions \X Offsets |-> 0]
  /\ origins = <<>>
  /\ parts = <<>>
  /\ stopping = FALSE
  /\ raised = {}

\* no request has reached the cors middleware
NoRequest == [called |-> FALSE, allowed |-> {}, origin |-> "", method |-> "GET"]
NoHeaders == [allow_origin |-> "", allow_methods |-> "", allow_headers |-> "",
              max_age |-> "", status |-> 0, next |-> FALSE]
IdleCors == cors_in = NoRequest /\ cors_out = NoHeaders

MaxCalls == 3             \* calls of loadClientConfig in one behaviour
Calls == 1..MaxCalls

\* JavaScript values of the model
JsUndefined == [t |-> "undefined", s |-> <<>>, n |-> 0]
JsNull == [t |-> "null", s |-> <<>>, n |-> 0]
JsStr(s) == [t |-> "string", s |-> s, n |-> 0]
JsNum(n) == [t |-> "number", s |-> <<>>, n |-> n]

\* export const ClientConfig = { ready: false, value: { api_base_url: "" } }
ClientConfigInitial == [ready |-> FALSE, value |-> [api_base_url |-> <<>>]]

\* a call of loadClientConfig that has not been made
NotCalled == [pc |-> "idle", result |-> [api_base_url |-> <<>>]]

\* the page is loaded and loadClientConfig has not been called
IdleClient ==
  /\ ClientConfig = ClientConfigInitial
  /\ calls = [c \in Calls |-> NotCalled]
  /\ fetches = 0
  /\ served = [valid |-> TRUE, json |-> "object", api_base_url |-> JsUndefined]

IdleWeb == IdleCors /\ IdleClient

Init == IdleRoute /\ IdleTransform /\ PipeInit /\ IdleAdmin /\ IdleWeb

\* the steps of the pipeline while the table is attached
Running ==
  \/ \E sh \in Shipments : Produce(sh)
  \/ \E w \in Workers : Start(w)
  \/ \E w \in Workers, p \in Partitions, n \in 1..MaxBatch : Fetch(w, p, n)
  \/ \E w \in Workers : ReadError(w)
  \/ \E w \in Workers : Process(w)
  \/ \E w \in Workers : Insert(w)
  \/ \E w \in Workers : WriteFail(w)
  \/ \E w \in Workers : Crash(w)
  \/ \E w \in Workers : Commit(w)
  \/ \E d \in StorePartitions, lo \in 1..Len(store), hi \in 1..Len(store) :
        MergePass(d, lo, hi)
  \/ \E d \in {1, TTLTicks + 1} : Tick(d)

Next ==
  \/ Running
  \/ Shutdown
  \/ \E w \in Workers : Stop(w)

Spec == Init /\ [][Next]_vars

\* the consumers under the scheduling of the Kafka engine: a consumer that can
\* start, poll, read, raise, insert or commit eventually does
Fairness ==
  \A w \in Workers :
    /\ WF_vars(Start(w))
    /\ WF_vars(\E p \in Partitions, n \in 1..MaxBatch : Fetch(w, p, n))
    /\ WF_vars(ReadError(w))
    /\ WF_vars(Process(w))
    /\ WF_vars(Insert(w))
    /\ WF_vars(Commit(w))

\* the pipeline for as long as no shutdown is signalled
FairSpec == Init /\ [][Running]_vars /\ Fairness

---------------------------------------------------------------------------
(* make_key on its own: every call of the filter over a range of records *)

MaxRouteTs == 1           \* record timestamps passed to make_key

\* the values a record may hold under host and app
LuaValues ==
  { LuaNil, LuaBool(FALSE), LuaBool(TRUE), LuaStr(<<>>), LuaStr(Str_h1),
    LuaStr(<<"a", ":", "b">>), LuaNum(7), LuaNum(-12), LuaTable }

\* the filter is about to be called on some record
RouteInit ==
  /\ \E host \in LuaValues, app \in LuaValues, ts \in 0..MaxRouteTs :
       rt_in = [tag |-> <<"t">>, ts |-> ts, record |-> ShipRecord(host, app, <<"m">>)]
  /\ rt_out = NoCall
  /\ IdleTransform
  /\ PipeInit
  /\ IdleAdmin
  /\ IdleWeb

RouteCall ==
  /\ ~rt_out.called
  /\ rt_out' = make_key(rt_in.tag, rt_in.ts, rt_in.record)
  /\ UNCHANGED <<rt_in, pipeVars, transformVars, adminVars, webVars>>

RouteNext == RouteCall

RouteSpec == RouteInit /\ [][RouteNext]_vars

\* the field as the claim reads it: the sentinel for an absent or empty field
FieldOrSentinelIfEmpty(v, sentinel) ==
  IF v.t = "string" /\ v.s /= <<>> THEN v.s ELSE sentinel

\* the field as the filter reads it: the sentinel for nil and false only
FieldOrSentinel(v, sentinel) == IF v.t = "string" THEN v.s ELSE sentinel

AbsentOrString(v) == v.t \in {"nil", "string"}
AbsentFalseOrString(v) == v.t \in {"nil", "string"} \/ v = LuaBool(FALSE)

\* C6 as stated: for a record whose host and app are each absent or a string,
\* make_key sets key to host ":" app, with "unknown-host" / "unknown-app" in
\* place of a field that is absent or the empty string.
C6_KeyDefaultsOnAbsentOrEmpty ==
  (rt_out.called /\ AbsentOrString(rt_in.record["host"])
                 /\ AbsentOrString(rt_in.record["app"]))
  => /\ ~rt_out.error
     /\ rt_out.record["key"] =
          LuaStr(FieldOrSentinelIfEmpty(rt_in.record["host"], UnknownHost)
                 \o <<":">>
                 \o FieldOrSentinelIfEmpty(rt_in.record["app"], UnknownApp))

\* C6 as amended: for a record whose host and app are each absent (nil), false
\* or a string, make_key sets key to host ":" app, with "unknown-host" /
\* "unknown-app" in place of a field that is absent or false; an empty string is
\* kept as it is. The key depends on host and app only, and a record with neither
\* field gets "unknown-host:unknown-app".
C6_KeyDefaultsOnAbsent ==
  (rt_out.called /\ AbsentFalseOrString(rt_in.record["host"])
                 /\ AbsentFalseOrString(rt_in.record["app"]))
  => /\ ~rt_out.error
     /\ rt_out.record["key"] =
          LuaStr(FieldOrSentinel(rt_in.record["host"], UnknownHost)
                 \o <<":">>
                 \o FieldOrSentinel(rt_in.record["app"], UnknownApp))

\* a call with no host and an empty app has returned the key "unknown-host:"
C6_Witness ==
  /\ rt_out.called
  /\ rt_in.record["host"] = LuaNil
  /\ rt_in.record["app"] = LuaStr(<<>>)
  /\ rt_out.record["key"] = LuaStr(UnknownHost \o <<":">>)


---------------------------------------------------------------------------
(* The materialized view on its own: one source row in, the selected rows out *)

TopicPartitions == 12     \* partitions of the topic app_logs.prod
MaxViewOffset == 11       \* offsets of the source rows given to the view
MaxViewTime == 1          \* receipt timestamps and insert times given to the view

Str_m5 == <<"-", "5">>
Str_p7 == <<"+", "7">>
Str_007 == <<"0", "0", "7">>
Str_obj0 == <<"{", "}">>
Str_obj1 == <<"{", "\"", "k", "\"", ":", "1", "}">>
Str_obj2 == <<"{", "\"", "k", "\"", ":", "\"", "v", "\"", ",", "\"", "n", "\"", ":", "2", "}">>
Str_objBad == <<"{", "\"", "k", "\"", ":", "}">>

\* payload texts of the ts, code and attrs columns
TsTexts == { <<>>, <<"0">>, <<"3", "1">>, <<"1", "x">>, <<"3", ".", "5">>, <<"3", ".", "0">> }
CodeTexts == { <<>>, Str_200, Str_m5, Str_p7, Str_007, <<"a", "b", "c">>, <<"-">>,
               Int32MaxDigits, Int32MinDigits, <<"-">> \o Int32MinDigits,
               <<"-">> \o Int32MinDigits \o <<"0">> }
AttrsTexts == { <<>>, Str_obj0, Str_obj1, Str_obj2, Str_objBad, <<"{">> }

\* the view is about to be given the source row of some message, read at some
\* position with some receipt time, at some insert time, on a server that holds
\* no function tryParseJson or one; the payload carries none of the keys _topic,
\* _offset, _partition, _timestamp, or all four
ViewInit ==
  /\ \E ts \in TsTexts, code \in CodeTexts, attrs \in AttrsTexts,
        keys \in {NoKeys, [_topic |-> NotNull(<<"t">>), _offset |-> NotNull(10),
                           _partition |-> NotNull(3), _timestamp |-> NotNull(1)]},
        partition \in 0..(TopicPartitions - 1), offset \in 0..MaxViewOffset,
        timestamp \in 0..MaxViewTime, clock \in 0..MaxViewTime,
        functions \in UserFunctions :
       /\ code = Str_200
          \/ (ts = <<"0">> /\ attrs \in {Str_obj0, Str_objBad} /\ offset = 0 /\ clock = 0)
       /\ functions = {} => (partition = 0 /\ offset = 0 /\ timestamp = 0 /\ clock = 0)
       /\ tf_in = [called |-> FALSE, clock |-> clock, functions |-> functions,
                   position |-> [partition |-> partition, offset |-> offset,
                                 timestamp |-> timestamp],
                   keys |-> keys,
                   row |-> KafkaRow([ts |-> ts, level |-> Str_info, env |-> Str_prod,
                                     app |-> Str_a1, host |-> Str_h1, code |-> code,
                                     message |-> <<"m">>, attrs |-> attrs,
                                     keys |-> keys],
                                    partition, offset, timestamp)]
  /\ tf_out = <<>>
  /\ tf_err = FALSE
  /\ IdleRoute
  /\ PipeInit
  /\ IdleAdmin
  /\ IdleWeb

ViewCall ==
  /\ ~tf_in.called
  /\ tf_in' = [tf_in EXCEPT !.called = TRUE]
  /\ tf_out' = mv_app_logs_consume(tf_in.row, tf_in.clock, tf_in.functions).rows
  /\ tf_err' = mv_app_logs_consume(tf_in.row, tf_in.clock, tf_in.functions).error
  /\ UNCHANGED <<pipeVars, routeVars, adminVars, webVars>>

ViewNext == ViewCall

ViewSpec == ViewInit /\ [][ViewNext]_vars

\* the text is the decimal numeral of n: digits only, no leading zero, value n
IsDecimalOf(s, n) ==
  /\ AllDigits(s)
  /\ Len(s) = 1 \/ s[1] /= "0"
  /\ DigitsValue(s) = n

\* C7: every row the view selects carries as dedup_token the decimal partition,
\* one '-', and the decimal offset of the position its message was read at,
\* whatever the payload and the insert time; so the same position always gives
\* the same token.
C7_DedupTokenIsPosition ==
  tf_in.called =>
    \A i \in 1..Len(tf_out) :
      LET t == tf_out[i].dedup_token
      IN \E k \in 1..Len(t) :
           /\ t[k] = "-"
           /\ IsDecimalOf(SubSeq(t, 1, k - 1), tf_in.position.partition)
           /\ IsDecimalOf(SubSeq(t, k + 1, Len(t)), tf_in.position.offset)

\* what the view does: the token is the decimal _partition column, one '-', and
\* the decimal _offset column of the source row, which the table fills from the
\* payload (0 when the payload has no such key)
C7_DedupTokenIsDeclaredColumns ==
  tf_in.called =>
    \A i \in 1..Len(tf_out) :
      LET t == tf_out[i].dedup_token
      IN \E k \in 1..Len(t) :
           /\ t[k] = "-"
           /\ IsDecimalOf(SubSeq(t, 1, k - 1), tf_in.row._partition)
           /\ IsDecimalOf(SubSeq(t, k + 1, Len(t)), tf_in.row._offset)
           /\ tf_in.keys = NoKeys => t = <<"0", "-", "0">>

\* C8: the view is total: for every source row, also when the payload's ts, code
\* or attrs is empty or does not parse, it raises no error and selects exactly
\* one row.
C8_ExactlyOneRow == tf_in.called => (~tf_err /\ Len(tf_out) = 1)

\* what the view does: its SELECT calls tryParseJson, so on a server that holds no
\* such function the call raises and no row is selected, whatever the source
\* row; where the function exists the WHERE clause filters nothing and exactly
\* one row is selected
C8_OneRowOrUnknownFunction ==
  tf_in.called =>
    IF "tryParseJson" \in tf_in.functions
    THEN ~tf_err /\ Len(tf_out) = 1
    ELSE tf_err /\ tf_out = <<>>


---------------------------------------------------------------------------
(* The merge of logs.fact_app_log *)

\* the rows of physical partition d that carry dedup_token t
TokenRows(rows, d, t) ==
  {i \in 1..Len(rows) : PartitionKey(rows[i]) = d /\ rows[i].dedup_token = t}

\* the same, leaving out the rows expired at time clock
LiveTokenRows(rows, d, t, clock) ==
  {i \in TokenRows(rows, d, t) : ~Expired(rows[i], clock)}

\* the dedup_tokens resident in physical partition d
Tokens(rows, d) ==
  {rows[i].dedup_token : i \in {j \in 1..Len(rows) : PartitionKey(rows[j]) = d}}

MaxIngestTime(rows, is) ==
  CHOOSE m \in {rows[i].ingest_time : i \in is} :
    \A i \in is : rows[i].ingest_time <= m

\* the days that may hold rows
Days == 0..((MaxEvents * (TTLTicks + 1)) \div TicksPerDay)

\* the step is some merge of physical partition d
MergeStep(d) ==
  \E lo \in 1..Len(store), hi \in 1..Len(store) : MergePass(d, lo, hi)

\* C1: after a merge pass over a physical partition no two of its rows share a
\* dedup_token, and a dedup_token that had two or more unexpired rows in the
\* partition before the pass has exactly one row after it.
C1_ExactlyOneRowPerTokenAfterMerge ==
  [][\A d \in Days : MergeStep(d) =>
       /\ \A t \in Tokens(store', d) : Cardinality(TokenRows(store', d, t)) <= 1
       /\ \A t \in Tokens(store, d) :
            Cardinality(LiveTokenRows(store, d, t, now)) >= 2
            => Cardinality(TokenRows(store', d, t)) = 1]_vars

\* C2: a merge pass drops a row only if a row with the same dedup_token is left
\* in the partition: every dedup_token of an unexpired row is still resident
\* after the pass.
C2_MergeKeepsEveryToken ==
  [][\A d \in Days : MergeStep(d) =>
       \A t \in Tokens(store, d) :
         LiveTokenRows(store, d, t, now) /= {} => TokenRows(store', d, t) /= {}]_vars

\* C9: when a merge pass finds several unexpired rows with one dedup_token, the
\* one row left with that token is the one with the latest ingest_time.
C9_LatestIngestTimeSurvives ==
  [][\A d \in Days : MergeStep(d) =>
       \A t \in Tokens(store, d) :
         Cardinality(LiveTokenRows(store, d, t, now)) >= 2
         => \E j \in TokenRows(store', d, t) :
              /\ TokenRows(store', d, t) = {j}
              /\ store'[j].ingest_time =
                   MaxIngestTime(store, LiveTokenRows(store, d, t, now))]_vars

\* the number of copies of row r among the rows
Copies(rows, r) == Cardinality({i \in 1..Len(rows) : rows[i] = r})

\* the rows of physical partition d, among the rows at the indices is, that are
\* past the retention at time clock
PastRetention(rows, is, d, clock) ==
  {i \in is : PartitionKey(rows[i]) = d /\ rows[i].ts + TTLTicks < clock}

\* the rows lo..hi of the table that are in physical partition d: the rows of
\* the parts a merge takes
Taken(d, lo, hi) == {i \in lo..hi : PartitionKey(store[i]) = d}

\* the table gains a copy of some row in this step
GainsRow == \E j \in 1..Len(store') : Copies(store', store'[j]) > Copies(store, store'[j])

\* C10 as stated: after a merge pass over a physical partition no row of the
\* partition is older than the retention (ts + 14 days < now), and a row comes
\* into the table only by an insert of the view.
C10_RetentionEnforced ==
  [][/\ \A d \in Days : MergeStep(d) =>
          \A j \in 1..Len(store') :
            PartitionKey(store'[j]) = d => ~(store'[j].ts + TTLTicks < now')
     /\ GainsRow => \E w \in Workers : Insert(w)]_vars

\* C10 as amended: a merge removes every row at or past the retention from the
\* parts it takes, so no row of a part written by a merge was at or past the
\* retention when that merge ran; the rows of the parts it does not take stay
\* as they are, so the rows past the retention left in the partition are those
\* of the parts not taken; and a row comes into the table only by an insert of
\* the view.
C10_RetentionEnforcedInPartsMerged ==
  [][/\ \A j \in 1..Len(store') :
          parts'[j].at /= NoMerge => store'[j].ts + TTLTicks > parts'[j].at
     /\ \A d \in Days, lo \in 1..Len(store), hi \in 1..Len(store) :
          MergePass(d, lo, hi) =>
            /\ Cardinality(PastRetention(store', 1..Len(store'), d, now)) =
                 Cardinality(PastRetention(store, (1..Len(store)) \ Taken(d, lo, hi), d, now))
            /\ \A i \in (1..Len(store)) \ Taken(d, lo, hi) :
                 \E j \in 1..Len(store') : store'[j] = store[i] /\ parts'[j].at = parts[i].at
     /\ GainsRow => \E w \in Workers : Insert(w)]_vars

\* a row was appended and a merge of its part, run when its retention had
\* passed, has emptied the table
C10_Witness ==
  /\ store = <<>>
  /\ now >= TTLTicks
  /\ \E x \in Partitions \X Offsets : appends[x] >= 1

---------------------------------------------------------------------------
(* Delivery *)

Published(p, o) == o < Len(log[p])

\* the pass that reads partition p can fail on the error ceiling: the consumers
\* of the table are read in one pass, and one of them has a message above the
\* ceiling within a poll from its committed offset
Stalled(p) ==
  \E q \in Partitions, k \in 0..(MaxBatch - 1) :
    /\ p \in Partitions
    /\ committed[q] + k < Len(log[q])
    /\ CeilingExceeded(MsgAt(q, committed[q] + k))

\* C3: two messages with the same key are in the same partition, and the later
\* one is processed only after the earlier one has been.
C3_SameKeyOrderPreserved ==
  \A p1 \in Partitions, p2 \in Partitions :
    \A o1 \in 0..(Len(log[p1]) - 1), o2 \in 0..(Len(log[p2]) - 1) :
      MsgAt(p1, o1).key = MsgAt(p2, o2).key
      => /\ p1 = p2
         /\ (o1 < o2 /\ <<p2, o2>> \in seen) => <<p1, o1>> \in seen

\* two messages with one key have both been processed
C3_Witness ==
  \E p \in Partitions :
    /\ Len(log[p]) >= 2
    /\ MsgAt(p, 0).key = MsgAt(p, 1).key
    /\ <<p, 0>> \in seen
    /\ <<p, 1>> \in seen

---------------------------------------------------------------------------
(* Offsets within a partition *)

\* C11 as stated: every offset a worker processes is greater than every offset
\* of the same partition processed before it, over the whole run.
C11_OffsetsStrictlyIncreasing ==
  [][\A w \in Workers : Process(w) =>
       \A x \in seen : x[1] = batch[w].p => x[2] < BatchOffset(batch[w])]_vars

\* C11 as amended: a batch starts at the partition's committed offset and is
\* processed in consecutive increasing offsets, so a worker processes an offset
\* only after every lower offset of the partition has been processed; after a
\* failure it resumes from the committed offset and may process an offset again.
C11_OffsetsIncreaseFromCommitted ==
  [][\A w \in Workers : Process(w) =>
       LET b == batch[w]
           o == BatchOffset(b)
       IN /\ b.lo = committed[b.p]
          /\ o = b.lo + b.i
          /\ \A o2 \in 0..(o - 1) : <<b.p, o2>> \in seen
          /\ batch'[w].i = b.i + 1]_vars

\* offset 0 of a partition was processed and inserted and, after a restart from
\* the committed offset, offsets 0 and 1 were processed and inserted
C11_Witness ==
  \E w \in Workers :
    /\ wstate[w] = "COMMITTING"
    /\ batch[w].lo = 0
    /\ batch[w].i = 2
    /\ appends[<<batch[w].p, 0>>] = 2
    /\ appends[<<batch[w].p, 1>>] >= 1

---------------------------------------------------------------------------
(* The columns of the selected row *)

RECURSIVE StripTrailingZeros(_)
StripTrailingZeros(s) ==
  IF s /= <<>> /\ s[Len(s)] = "0" THEN StripTrailingZeros(SubSeq(s, 1, Len(s) - 1)) ELSE s

\* the instant a payload's ts text denotes: whole ticks and sub-second digits
PayloadTime(s) ==
  [whole |-> DigitsValue(WholePart(s)), sub |-> StripTrailingZeros(FractionPart(s))]

\* the instant a row holds in ts: the view gives a DateTime, so no sub-second part
RowTime(r) == [whole |-> r.ts, sub |-> <<>>]

\* the instant of a message's receipt timestamp (whole seconds)
ReceiptTime(t) == [whole |-> t, sub |-> <<>>]

\* C13: the selected row's ts is the instant the payload's ts denotes when that
\* text is a date-time, and the message's receipt timestamp otherwise; it is
\* never NULL.
C13_TimestampIsPayloadOrReceipt ==
  tf_in.called =>
    \A i \in 1..Len(tf_out) :
      /\ tf_out[i].ts \in Nat
      /\ RowTime(tf_out[i]) = IF IsDateTimeText(tf_in.row.ts)
                              THEN PayloadTime(tf_in.row.ts)
                              ELSE ReceiptTime(tf_in.position.timestamp)

\* what the view does: the row's ts is the payload's ts cut to whole seconds
\* when the text is a date-time, and otherwise the _timestamp column, which the
\* table fills from the payload (the epoch when the payload has no such key)
C13_TimestampIsPayloadSecondsOrColumn ==
  tf_in.called =>
    \A i \in 1..Len(tf_out) :
      /\ tf_out[i].ts \in Nat
      /\ tf_out[i].ts = IF IsDateTimeText(tf_in.row.ts)
                        THEN PayloadTime(tf_in.row.ts).whole
                        ELSE tf_in.row._timestamp
      /\ tf_in.keys = NoKeys => tf_in.row._timestamp = 0

\* the code texts of the range that are Int32 numerals, with their values
Int32Texts ==
  { <<Str_200, 200>>, <<Str_m5, -5>>, <<Str_p7, 7>>, <<Str_007, 7>>,
    <<Int32MaxDigits, 2147483647>>, <<<<"-">> \o Int32MinDigits, -2147483647 - 1>> }

\* the empty structure
EmptyJson == <<>>

\* the attrs texts of the range that are JSON objects, with their members
JsonTexts ==
  { <<Str_obj0, <<>>>>,
    <<Str_obj1, <<[k |-> <<"k">>, v |-> <<"1">>]>>>>,
    <<Str_obj2, <<[k |-> <<"k">>, v |-> <<"\"", "v", "\"">>],
                  [k |-> <<"n">>, v |-> <<"2">>]>>>> }

\* the code of the selected row is the value of the code text when that is an
\* Int32 numeral and 0 otherwise, and level, env, app, host and message are
\* those of the source row
CodeDefaultsOthersKept ==
  /\ tf_out[1].code = IF \E x \in Int32Texts : x[1] = tf_in.row.code
                      THEN (CHOOSE x \in Int32Texts : x[1] = tf_in.row.code)[2]
                      ELSE 0
  /\ tf_out[1].level = tf_in.row.level
  /\ tf_out[1].env = tf_in.row.env
  /\ tf_out[1].app = tf_in.row.app
  /\ tf_out[1].host = tf_in.row.host
  /\ tf_out[1].message = tf_in.row.message

\* C14: a code text that is no Int32 numeral gives code = 0 and an attrs text
\* that is no JSON object gives the empty structure; a text that parses gives
\* its value; the row is still selected and its level, env, app, host and
\* message are those of the source row.
C14_ParseFailuresBecomeDefaults ==
  tf_in.called =>
    /\ ~tf_err
    /\ Len(tf_out) = 1
    /\ CodeDefaultsOthersKept
    /\ tf_out[1].attrs = IF \E x \in JsonTexts : x[1] = tf_in.row.attrs
                         THEN (CHOOSE x \in JsonTexts : x[1] = tf_in.row.attrs)[2]
                         ELSE EmptyJson

\* what the view does: the code half holds wherever a row is selected; the attrs
\* column is the value of a call of tryParseJson, which raises on a server that
\* holds no such function (no row is selected) and is otherwise whatever the
\* function created there gives, for a JSON object as for any other text
C14_CodeDefaultsAttrsUndefined ==
  tf_in.called =>
    IF "tryParseJson" \in tf_in.functions
    THEN /\ ~tf_err
         /\ Len(tf_out) = 1
         /\ CodeDefaultsOthersKept
         /\ tf_out[1].attrs = [fn |-> "tryParseJson", arg |-> tf_in.row.attrs]
    ELSE tf_err /\ tf_out = <<>>

---------------------------------------------------------------------------
(* The outcomes of make_key *)

\* the call returned 1, the timestamp it was given, and the record with a string
\* under key and every other field as it was
ReturnedKeyedRecord ==
  /\ ~rt_out.error
  /\ rt_out.code = 1
  /\ rt_out.ts = rt_in.ts
  /\ rt_out.record["key"].t = "string"
  /\ \A f \in RecordFields \ {"key"} : rt_out.record[f] = rt_in.record[f]

\* C15: for every record, whatever is stored under host and app, make_key raises
\* no error and returns the record with key set, the timestamp and every other
\* field unchanged.
C15_RouteNeverFails == rt_out.called => ReturnedKeyedRecord

\* the value .. cannot take: true or a table (nil and false are replaced by the
\* sentinel before the concatenation)
NotConcatenated(v) == v = LuaBool(TRUE) \/ v = LuaTable

\* the same for the records make_key can concatenate: the call raises exactly
\* when host or app holds true or a table, and returns the keyed record otherwise
C15_RouteFailsOnlyOnBooleanOrTable ==
  rt_out.called =>
    IF NotConcatenated(rt_in.record["host"]) \/ NotConcatenated(rt_in.record["app"])
    THEN rt_out.error
    ELSE ReturnedKeyedRecord

---------------------------------------------------------------------------
(* The error ceiling *)

\* C16: a read that fails on the error ceiling is fatal only to the worker that
\* made it: the states and batches of the other workers, the committed offsets
\* and the table are left as they were; the worker polls again from its
\* committed offset, with no offset below it left unread.
C16_FailedReadStopsReaderOnly ==
  [][/\ \A w \in Workers : ReadError(w) =>
          /\ \A w2 \in Workers \ {w} : wstate'[w2] = wstate[w2] /\ batch'[w2] = batch[w2]
          /\ committed' = committed
          /\ store' = store
          /\ wstate'[w] = "FETCHING"
     /\ \A w \in raised', p \in Partitions :
          AssignedTo(p) = w =>
            /\ \A o \in 0..(committed'[p] - 1) : <<p, o>> \in seen'
            /\ \A n \in 1..MaxBatch : Fetch(w, p, n) => batch'[w].lo = committed[p]]_vars

\* what the table does: a read fails only on a message with more malformed rows
\* than input_format_allow_errors_num; the failed read ends the pass for every
\* consumer in it, whose batches are dropped with nothing committed, while the
\* rows a consumer of the pass has inserted stay in the table; every consumer
\* polls again from its committed offset
C16_FailedReadAbortsPass ==
  [][\A w \in Workers : ReadError(w) =>
       /\ MsgAt(batch[w].p, BatchOffset(batch[w])).errors > AllowErrorsNum
       /\ \A w2 \in InPass : wstate'[w2] = "FETCHING" /\ batch'[w2] = NoBatch
       /\ \A w2 \in Workers \ InPass : wstate'[w2] = wstate[w2]
       /\ committed' = committed
       /\ store' = store]_vars

---------------------------------------------------------------------------
(* The write path *)

\* C17: the insert is a pure append: the rows already in the table stay as they
\* are and in place, and the table grows by exactly the row of every message of
\* the block, also when a row of the same dedup_token is resident or in the
\* block.
C17_InsertIsPureAppend ==
  [][\A w \in Workers : Insert(w) =>
       LET blk == Block(batch[w], batch[w].i, now)
       IN /\ SubSeq(store', 1, Len(store)) = store
          /\ Len(store') = Len(store) + Len(blk)
          /\ \A j \in 1..Len(blk) : store'[Len(store) + j] = blk[j].row]_vars

\* what the insert does: the rows already in the table stay as they are and in
\* place, and of the rows of the block one is written for each sorting key, so
\* the table grows by at most the rows of the block
C17_InsertLeavesResidentRows ==
  [][\A w \in Workers : Insert(w) =>
       LET blk == Block(batch[w], batch[w].i, now)
       IN /\ SubSeq(store', 1, Len(store)) = store
          /\ Len(store') <= Len(store) + Len(blk)
          /\ \A j \in (Len(store) + 1)..Len(store') :
               \E k \in 1..Len(blk) : store'[j] = blk[k].row
          /\ \A k \in 1..Len(blk) :
               \E j \in (Len(store) + 1)..Len(store') :
                 SortingKey(store'[j]) = SortingKey(blk[k].row)]_vars

---------------------------------------------------------------------------
(* Provisioning: the schema scripts and the admin server's create handlers *)

MaxAdminOps == 4          \* provisioning operations run in one behaviour

\* what each schema object needs to exist before its statement can run
Needs(obj) ==
  CASE obj = "logs" -> {}
    [] obj = "fact_app_log" -> {"logs"}
    [] obj = "ix_msg_token" -> {"logs", "fact_app_log"}
    [] obj = "ix_msg_ngram" -> {"logs", "fact_app_log"}
    [] obj = "src_kafka_app_logs" -> {"logs"}
    [] obj = "mv_app_logs_consume" -> {"logs", "src_kafka_app_logs", "fact_app_log"}

SchemaObjects ==
  {"logs", "fact_app_log", "ix_msg_token", "ix_msg_ngram",
   "src_kafka_app_logs", "mv_app_logs_consume"}

\* the outcome of a statement sent to ClickHouse
SqlOutcome(obj, ok) ==
  [op |-> obj, ok |-> ok, status |-> 0, requests |-> 1, writes |-> 0, n |-> resp.n + 1,
   applied |-> ok]

\* CREATE ... IF NOT EXISTS / ADD INDEX IF NOT EXISTS: the object is created when
\* it is absent, nothing is done when it exists; the statement fails when what
\* it refers to does not exist, and when the server refuses it for what it says:
\* fact_app_log gives ReplacingMergeTree a String version column (the engine
\* takes UInt*, Date, DateTime or DateTime64), and the view calls tryParseJson,
\* which is no function of the server
CreateIfNotExists(obj) ==
  /\ resp.n + Len(inflight) < MaxAdminOps
  /\ IF obj \notin {"fact_app_log", "mv_app_logs_consume"} /\ Needs(obj) \subseteq ch
     THEN ch' = ch \cup {obj} /\ resp' = SqlOutcome(obj, TRUE)
     ELSE ch' = ch /\ resp' = SqlOutcome(obj, FALSE)
  /\ UNCHANGED <<es, kc, inflight, pipeVars, routeVars, transformVars, webVars>>

\* the outcome of a handler: the status written, the downstream requests made,
\* and whether the downstream service had carried the request out
HttpOutcome(op, status, requests, applied) ==
  [op |-> op, ok |-> (status >= 200 /\ status < 300), status |-> status,
   requests |-> requests, writes |-> 1, n |-> resp.n + 1, applied |-> applied]

MaxInflight == 2          \* downstream requests outstanding at once

\* the object a provisioning operation creates, by the operation's name
Target(op) ==
  CASE op = "handleCreateDataStream" -> "data_stream"
    [] op = "handleRegisterSink" -> "sink"
    [] op = "handlePutILM" -> "ilm"
    [] op = "handlePutTemplate" -> "template"
    [] op = "handlePutPipeline" -> "pipeline"
    [] OTHER -> op

\* what the downstream service answers to the request of a handler
DownstreamStatus(op) ==
  CASE op = "handleCreateDataStream" ->
         \* PUT _data_stream/<name>: 400 when the data stream exists or no index
         \* template matches it
         IF "data_stream" \in es \/ "template" \notin es THEN 400 ELSE 200
    [] op = "handleRegisterSink" ->
         \* POST /connectors: 409 when a connector of that name exists
         IF "sink" \in kc THEN 409 ELSE 201
    [] op = "handleDeleteSink" ->
         \* DELETE /connectors/<name>: 404 when there is no such connector
         IF "sink" \in kc THEN 204 ELSE 404
    [] OTHER ->
         \* PUT _ilm/policy, _index_template, _ingest/pipeline: create or replace
         200

\* readJSONFile and the making of the request: 400 at once when the file cannot
\* be read, 500 at once when doPUT / doPOST cannot make the request; otherwise
\* the request is sent and the handler waits in s.client.Do
handleFileBacked(op, fileOk, urlOk) ==
  /\ resp.n + Len(inflight) < MaxAdminOps
  /\ IF ~fileOk THEN resp' = HttpOutcome(op, 400, 0, FALSE) /\ inflight' = inflight
     ELSE IF ~urlOk THEN resp' = HttpOutcome(op, 500, 0, FALSE) /\ inflight' = inflight
     ELSE /\ Len(inflight) < MaxInflight
          /\ resp' = resp
          /\ inflight' = Append(inflight, [op |-> op, pc |-> "sent", status |-> 0, existed |-> FALSE])
  /\ UNCHANGED <<ch, es, kc, pipeVars, routeVars, transformVars, webVars>>

handlePutILM(fileOk, urlOk) == handleFileBacked("handlePutILM", fileOk, urlOk)
handlePutTemplate(fileOk, urlOk) == handleFileBacked("handlePutTemplate", fileOk, urlOk)
handlePutPipeline(fileOk, urlOk) == handleFileBacked("handlePutPipeline", fileOk, urlOk)
handleRegisterSink(fileOk, urlOk) == handleFileBacked("handleRegisterSink", fileOk, urlOk)

\* the request is made with the error of http.NewRequestWithContext dropped: a
\* request that could not be made is nil and the handler panics on it (net/http
\* recovers and closes the connection, no status is written); otherwise the
\* request is sent and the handler waits in s.client.Do
handleCreateDataStream(urlOk) ==
  /\ resp.n + Len(inflight) < MaxAdminOps
  /\ IF ~urlOk
     THEN /\ resp' = [op |-> "handleCreateDataStream", ok |-> FALSE, status |-> 0,
                      requests |-> 0, writes |-> 0, n |-> resp.n + 1, applied |-> FALSE]
          /\ inflight' = inflight
     ELSE /\ Len(inflight) < MaxInflight
          /\ resp' = resp
          /\ inflight' = Append(inflight, [op |-> "handleCreateDataStream", pc |-> "sent",
                                          status |-> 0, existed |-> FALSE])
  /\ UNCHANGED <<ch, es, kc, pipeVars, routeVars, transformVars, webVars>>

\* doDELETE: 500 at once when the request cannot be made; otherwise the request
\* is sent and the handler waits in s.client.Do
handleDeleteSink(urlOk) ==
  /\ resp.n + Len(inflight) < MaxAdminOps
  /\ IF ~urlOk THEN resp' = HttpOutcome("handleDeleteSink", 500, 0, FALSE) /\ inflight' = inflight
     ELSE /\ Len(inflight) < MaxInflight
          /\ resp' = resp
          /\ inflight' = Append(inflight, [op |-> "handleDeleteSink", pc |-> "sent",
                                          status |-> 0, existed |-> FALSE])
  /\ UNCHANGED <<ch, es, kc, pipeVars, routeVars, transformVars, webVars>>

\* Elasticsearch or Kafka Connect carries out the i-th outstanding request:
\* it answers the handler that waits for it; when the handler has given the
\* request up, the request is carried out all the same and its answer is lost
DownstreamApplies(i) ==
  LET op == inflight[i].op
  IN /\ inflight[i].pc \in {"sent", "abandoned"}
     /\ inflight' = IF inflight[i].pc = "sent"
                    THEN [inflight EXCEPT ![i] = [op |-> op, pc |-> "applied",
                                                  status |-> DownstreamStatus(op),
                                                  existed |-> (Target(op) \in es \cup kc)]]
                    ELSE SubSeq(inflight, 1, i - 1) \o SubSeq(inflight, i + 1, Len(inflight))
     /\ es' = IF op \in {"handlePutILM", "handlePutTemplate", "handlePutPipeline"}
              THEN es \cup {Target(op)}
              ELSE IF op = "handleCreateDataStream" /\ DownstreamStatus(op) = 200
                   THEN es \cup {"data_stream"}
                   ELSE es
     /\ kc' = IF op = "handleRegisterSink" THEN kc \cup {"sink"}
              ELSE IF op = "handleDeleteSink" THEN kc \ {"sink"}
              ELSE kc
     /\ UNCHANGED <<ch, resp, pipeVars, routeVars, transformVars, webVars>>

\* a transport failure answered as a bad gateway
handlerReturns_BadGateway(i, netOk, delivered) ==
  /\ inflight[i].pc = "applied" \/ (inflight[i].pc = "sent" /\ ~netOk)
  /\ resp' = HttpOutcome(inflight[i].op, IF netOk THEN inflight[i].status ELSE 502, 1,
                         inflight[i].pc = "applied")
  /\ inflight' = IF inflight[i].pc = "sent" /\ delivered
                 THEN [inflight EXCEPT ![i].pc = "abandoned"]
                 ELSE SubSeq(inflight, 1, i - 1) \o SubSeq(inflight, i + 1, Len(inflight))
  /\ UNCHANGED <<ch, es, kc, pipeVars, routeVars, transformVars, webVars>>

\* s.client.Do returns in the i-th waiting handler, which writes its response:
\* the status of the downstream service when its answer arrived, 500 when the
\* request failed, be it before or after the service carried it out (client
\* Timeout, ResponseHeaderTimeout, the caller's context cancelled). A request
\* given up before the service carried it out either never reached the service,
\* or was delivered and is still carried out later
handlerReturns(i, netOk, delivered) ==
  /\ inflight[i].pc = "applied" \/ (inflight[i].pc = "sent" /\ ~netOk)
  /\ resp' = HttpOutcome(inflight[i].op, IF netOk THEN inflight[i].status ELSE 500, 1,
                         inflight[i].pc = "applied")
  /\ inflight' = IF inflight[i].pc = "sent" /\ delivered
                 THEN [inflight EXCEPT ![i].pc = "abandoned"]
                 ELSE SubSeq(inflight, 1, i - 1) \o SubSeq(inflight, i + 1, Len(inflight))
  /\ UNCHANGED <<ch, es, kc, pipeVars, routeVars, transformVars, webVars>>

AdminNext ==
  \/ \E obj \in SchemaObjects : CreateIfNotExists(obj)
  \/ \E fileOk \in BOOLEAN, urlOk \in BOOLEAN : handlePutILM(fileOk, urlOk)
  \/ \E fileOk \in BOOLEAN, urlOk \in BOOLEAN : handlePutTemplate(fileOk, urlOk)
  \/ \E fileOk \in BOOLEAN, urlOk \in BOOLEAN : handlePutPipeline(fileOk, urlOk)
  \/ \E urlOk \in BOOLEAN : handleCreateDataStream(urlOk)
  \/ \E fileOk \in BOOLEAN, urlOk \in BOOLEAN : handleRegisterSink(fileOk, urlOk)
  \/ \E urlOk \in BOOLEAN : handleDeleteSink(urlOk)
  \/ \E i \in 1..Len(inflight) : DownstreamApplies(i)
  \/ \E i \in 1..Len(inflight), netOk \in BOOLEAN, delivered \in BOOLEAN :
       handlerReturns(i, netOk, delivered)

AdminSpec == Init /\ [][AdminNext]_vars

Provisioned == ch \cup es \cup kc
CreateOps == SchemaObjects \cup {"handleCreateDataStream", "handleRegisterSink",
                                 "handlePutILM", "handlePutTemplate", "handlePutPipeline"}

\* the step ends a create operation that reached its service and found its
\* object there: a statement run on an existing object, or the return of a
\* handler whose request the service answered
RepeatedCreate ==
  \/ \E obj \in SchemaObjects : obj \in ch /\ CreateIfNotExists(obj)
  \/ \E i \in 1..Len(inflight) :
       /\ inflight[i].op \in CreateOps
       /\ inflight[i].pc = "applied"
       /\ inflight[i].existed
       /\ handlerReturns(i, TRUE, TRUE)

\* the step is a service carrying out a create request whose object exists
RepeatedApply ==
  \E i \in 1..Len(inflight) :
    /\ inflight[i].op \in CreateOps
    /\ Target(inflight[i].op) \in Provisioned
    /\ DownstreamApplies(i)

\* C18: a create operation run again when its object exists succeeds and leaves
\* everything provisioned as it was.
C18_CreateIsIdempotent ==
  [][/\ RepeatedCreate => (resp'.ok /\ ch' = ch /\ es' = es /\ kc' = kc)
     /\ RepeatedApply => (ch' = ch /\ es' = es /\ kc' = kc)]_vars

\* the same without the success: a create operation run again when its object
\* exists leaves everything provisioned as it was, and the CREATE ... IF NOT
\* EXISTS statements and the PUT handlers of policies, templates and pipelines
\* also succeed
C18_RepeatedCreateChangesNothing ==
  [][/\ RepeatedCreate =>
          /\ ch' = ch /\ es' = es /\ kc' = kc
          /\ resp'.op \notin {"handleCreateDataStream", "handleRegisterSink"} => resp'.ok
     /\ RepeatedApply => (ch' = ch /\ es' = es /\ kc' = kc)]_vars

---------------------------------------------------------------------------
(* The consumer's cycle *)

\* the cycle of a consumer without failures
CycleEdges ==
  { <<"IDLE", "FETCHING">>, <<"FETCHING", "PROCESSING">>,
    <<"PROCESSING", "COMMITTING">>, <<"COMMITTING", "FETCHING">> }

\* an aborted pass drops the batch in flight
FailureEdges == { <<"PROCESSING", "FETCHING">>, <<"COMMITTING", "FETCHING">> }

\* the state of worker w changes in this step
Moves(w) == wstate'[w] /= wstate[w]

---------------------------------------------------------------------------
(* The shutdown of a worker *)

\* the step commits the batch in flight of worker w: the committed offset of its
\* partition moves to the end of the messages read, every one of them read and,
\* where its payload is a JSON row, inserted
CommitsBatchInFlight(w) ==
  /\ wstate[w] = "COMMITTING"
  /\ committed'[batch[w].p] = batch[w].lo + batch[w].i
  /\ \A o \in batch[w].lo..(batch[w].lo + batch[w].i - 1) :
       /\ <<batch[w].p, o>> \in seen
       /\ MsgAt(batch[w].p, o).wellformed => appends[<<batch[w].p, o>>] >= 1

\* a worker enters STOPPED only once the signal has come, with no batch in
\* flight: as it is when it has none, by the commit of its batch otherwise
StopsWithNoBatch(w) ==
  /\ wstate'[w] = "STOPPED" => batch'[w] = NoBatch
  /\ (Moves(w) /\ wstate'[w] = "STOPPED") =>
       /\ stopping
       /\ \/ wstate[w] \in {"IDLE", "FETCHING"} /\ committed' = committed
          \/ CommitsBatchInFlight(w)

---------------------------------------------------------------------------
(* The physical partition of a row *)

\* the calendar day a row was inserted on
IngestDay(r) == toYYYYMMDD(r.ingest_time)

\* C20: a row's physical partition is the day of its ts and of nothing else: rows
\* of equal ts are in one partition whatever their ingest_time, and two rows
\* inserted for the same transport message (the same partition and offset) are
\* in the same partition, the one a merge reconciles them in.
C20_PartitionIsDayOfTimestamp ==
  \A i \in 1..Len(store), j \in 1..Len(store) :
    /\ PartitionKey(store[i]) = toYYYYMMDD(store[i].ts)
    /\ store[i].ts = store[j].ts => PartitionKey(store[i]) = PartitionKey(store[j])
    /\ origins[i] = origins[j] =>
         /\ PartitionKey(store[i]) = PartitionKey(store[j])
         /\ PartitionKey(store[i]) \in StorePartitions

\* one message inserted twice, on different days, both rows in one partition
C20_Witness ==
  \E i \in 1..Len(store), j \in 1..Len(store) :
    /\ i < j
    /\ origins[i] = origins[j]
    /\ IngestDay(store[i]) /= IngestDay(store[j])
    /\ PartitionKey(store[i]) = PartitionKey(store[j])

---------------------------------------------------------------------------
(* The file-backed provisioning handlers *)

FileBacked == {"handlePutILM", "handlePutTemplate", "handlePutPipeline", "handleRegisterSink"}

\* the step is a call of a file-backed handler with these two outcomes of its
\* file read and of the making of its request
FileBackedCall(fileOk, urlOk) ==
  \/ handlePutILM(fileOk, urlOk)
  \/ handlePutTemplate(fileOk, urlOk)
  \/ handlePutPipeline(fileOk, urlOk)
  \/ handleRegisterSink(fileOk, urlOk)

\* the number of handlers that wait for their request
Waiting(reqs) == Cardinality({i \in 1..Len(reqs) : reqs[i].pc /= "abandoned"})

\* the status a service gives to the request of a file-backed handler, from what
\* is provisioned
ServiceStatus(op) ==
  IF op = "handleRegisterSink" THEN (IF "sink" \in kc THEN 409 ELSE 201) ELSE 200

\* C23: a file-backed handler answers 400 and makes no downstream request when
\* its file cannot be read, 500 when the downstream request fails, the status
\* of the downstream service otherwise, and writes one response in each case:
\* at once when it makes no request, and when its request returns otherwise.
C23_FileBackedHandlerStatus ==
  [][/\ \A fileOk \in BOOLEAN, urlOk \in BOOLEAN :
          FileBackedCall(fileOk, urlOk) =>
            /\ es' = es /\ kc' = kc
            /\ ~fileOk => (resp'.status = 400 /\ resp'.requests = 0 /\ resp'.writes = 1
                           /\ resp'.n = resp.n + 1 /\ inflight' = inflight)
            /\ (fileOk /\ ~urlOk) => (resp'.status = 500 /\ resp'.requests = 0
                                      /\ resp'.writes = 1 /\ resp'.n = resp.n + 1
                                      /\ inflight' = inflight)
            /\ (fileOk /\ urlOk) => (resp' = resp /\ Len(inflight') = Len(inflight) + 1)
     /\ \A i \in 1..Len(inflight) :
          (inflight[i].op \in FileBacked /\ DownstreamApplies(i)) =>
            /\ resp' = resp
            /\ inflight[i].pc = "sent" =>
                 inflight'[i].status = ServiceStatus(inflight[i].op)
     /\ \A i \in 1..Len(inflight), netOk \in BOOLEAN, delivered \in BOOLEAN :
          (inflight[i].op \in FileBacked /\ handlerReturns(i, netOk, delivered)) =>
            /\ resp'.op = inflight[i].op
            /\ resp'.writes = 1 /\ resp'.requests = 1 /\ resp'.n = resp.n + 1
            /\ resp'.status = IF netOk THEN inflight[i].status ELSE 500
            /\ Waiting(inflight') = Waiting(inflight) - 1
            /\ es' = es /\ kc' = kc]_vars

\* a file-backed handler has answered 500 to a request that failed after the
\* service had carried it out, and what it provisions is there
C23_Witness ==
  /\ resp.op \in FileBacked
  /\ resp.status = 500 /\ resp.requests = 1 /\ resp.writes = 1
  /\ resp.applied
  /\ Target(resp.op) \in es \cup kc

---------------------------------------------------------------------------
(* The dedup_token of different positions *)

\* the source row of the same payload read at another position of the topic
AtPosition(p, o) ==
  KafkaRow([ts |-> tf_in.row.ts, level |-> tf_in.row.level, env |-> tf_in.row.env,
            app |-> tf_in.row.app, host |-> tf_in.row.host, code |-> tf_in.row.code,
            message |-> tf_in.row.message, attrs |-> tf_in.row.attrs,
            keys |-> tf_in.keys],
           p, o, tf_in.position.timestamp)

\* C24: the dedup_token of the row selected for a message at one position is
\* the token of no other position: the same payload read at another
\* (partition, offset) is given a different dedup_token.
C24_DedupTokenInjective ==
  tf_in.called =>
    \A p \in 0..(TopicPartitions - 1), o \in 0..MaxViewOffset :
      \A i \in 1..Len(tf_out) :
        (mv_where(AtPosition(p, o))
           /\ tf_out[i].dedup_token = mv_dedup_token(AtPosition(p, o))) =>
          (p = tf_in.position.partition /\ o = tf_in.position.offset)

\* C24 (in the store): two resident rows of equal dedup_token are rows of the
\* same transport message.
C24_EqualTokensAreOneMessage ==
  \A i \in 1..Len(store), j \in 1..Len(store) :
    store[i].dedup_token = store[j].dedup_token => origins[i] = origins[j]

\* what the view does: the token is a function of the payload alone; the same
\* payload gets the same token at every position
C24_TokenIgnoresPosition ==
  tf_in.called =>
    \A p \in 0..(TopicPartitions - 1), o \in 0..MaxViewOffset :
      \A i \in 1..Len(tf_out) :
        tf_out[i].dedup_token = mv_dedup_token(AtPosition(p, o))

---------------------------------------------------------------------------
(* The cors middleware of the admin server *)

\* origins that frontend.allowed_origins may list, and origins of requests
\* ("" is a request without an Origin header)
ConfigurableOrigins == {"http://admin.example", "http://ops.example", "http://dev.example"}
RequestOrigins == ConfigurableOrigins \cup {"http://other.example", ""}
Methods == {"GET", "POST", "PUT", "DELETE", "OPTIONS"}

\* cors(allowed, next): the headers set on the response, the status written by
\* the middleware itself (204 for OPTIONS, none otherwise) and whether the
\* request is passed to next
cors(allowed, origin, method) ==
  [allow_origin |-> "*",
   allow_methods |-> "GET, POST, PUT, DELETE, OPTIONS",
   allow_headers |-> "Content-Type, Authorization",
   max_age |-> "600",
   status |-> IF method = "OPTIONS" THEN 204 ELSE 0,
   next |-> method /= "OPTIONS"]

\* some request is about to reach the admin server under some configuration
CorsInit ==
  /\ \E allowed \in SUBSET ConfigurableOrigins, origin \in RequestOrigins,
        method \in Methods :
       cors_in = [called |-> FALSE, allowed |-> allowed, origin |-> origin,
                  method |-> method]
  /\ cors_out = NoHeaders
  /\ IdleRoute
  /\ IdleTransform
  /\ PipeInit
  /\ IdleAdmin
  /\ IdleClient

CorsCall ==
  /\ ~cors_in.called
  /\ cors_in' = [cors_in EXCEPT !.called = TRUE]
  /\ cors_out' = cors(cors_in.allowed, cors_in.origin, cors_in.method)
  /\ UNCHANGED <<pipeVars, routeVars, transformVars, adminVars, clientVars>>

CorsNext == CorsCall

CorsSpec == CorsInit /\ [][CorsNext]_vars

\* the response lets the page of this origin read it
Grants(origin) ==
  origin /= "" /\ (cors_out.allow_origin = "*" \/ cors_out.allow_origin = origin)

\* C22: the response grants cross-origin access only to a request whose Origin
\* is one of frontend.allowed_origins, and to no origin outside that list.
C22_GrantsOnlyAllowedOrigins ==
  cors_in.called =>
    /\ cors_out.allow_origin /= "" => cors_in.origin \in cors_in.allowed
    /\ \A origin \in RequestOrigins : Grants(origin) => origin \in cors_in.allowed

\* what the middleware does: every response carries Access-Control-Allow-Origin: *
\* whatever the request's Origin and the configured list; an OPTIONS request is
\* answered 204 and not passed on.
C22_EveryOriginIsGranted ==
  cors_in.called =>
    /\ cors_out.allow_origin = "*"
    /\ \A origin \in RequestOrigins \ {""} : Grants(origin)
    /\ cors_out.next <=> cors_in.method /= "OPTIONS"
    /\ cors_in.method = "OPTIONS" => cors_out.status = 204

---------------------------------------------------------------------------
(* The frontend's runtime configuration: loadClientConfig *)

\* a || b
JsOr(a, b) ==
  IF \/ a.t \in {"undefined", "null"}
     \/ (a.t = "string" /\ a.s = <<>>)
     \/ (a.t = "number" /\ a.n = 0)
  THEN b ELSE a

\* String(v)
JsString(v) ==
  CASE v.t = "string" -> v.s
    [] v.t = "number" -> toString(v.n)
    [] v.t = "null" -> <<"n", "u", "l", "l">>
    [] OTHER -> <<"u", "n", "d", "e", "f", "i", "n", "e", "d">>

\* the code units String.prototype.trim strips: WhiteSpace (tab, vertical tab,
\* form feed, space, no-break space, zero width no-break space, the Unicode
\* space separators) and LineTerminator (line feed, carriage return, line and
\* paragraph separator); a code unit that has no escape in a string of this
\* module is written by its name
WhiteSpace ==
  {"\t", "U+000B", "\f", " ", "U+00A0", "U+FEFF", "U+1680", "U+2000", "U+2001",
   "U+2002", "U+2003", "U+2004", "U+2005", "U+2006", "U+2007", "U+2008", "U+2009",
   "U+200A", "U+202F", "U+205F", "U+3000", "\n", "\r", "U+2028", "U+2029"}

RECURSIVE TrimStart(_)
TrimStart(s) == IF s /= <<>> /\ s[1] \in WhiteSpace THEN TrimStart(Tail(s)) ELSE s

RECURSIVE TrimEnd(_)
TrimEnd(s) ==
  IF s /= <<>> /\ s[Len(s)] \in WhiteSpace THEN TrimEnd(SubSeq(s, 1, Len(s) - 1)) ELSE s

\* s.trim()
trim(s) == TrimEnd(TrimStart(s))

Str_api == <<"h", ":", "/", "/", "a">>

\* bodies that may be served at /client-config.json: text that is no JSON
\* (valid FALSE), the JSON document null, a JSON document that is a number, and
\* JSON objects by the value of their api_base_url
ServedBodies ==
  { [valid |-> FALSE, json |-> "undefined", api_base_url |-> JsUndefined],
    [valid |-> TRUE, json |-> "null", api_base_url |-> JsUndefined],
    [valid |-> TRUE, json |-> "number", api_base_url |-> JsUndefined] } \cup
  { [valid |-> TRUE, json |-> "object", api_base_url |-> v] :
      v \in { JsUndefined, JsNull, JsStr(<<>>), JsStr(Str_api),
               JsStr(<<" ">> \o Str_api \o <<" ", " ">>),
               JsStr(<<"\t">> \o Str_api \o <<"\n">>),
               JsStr(<<"U+00A0">> \o Str_api \o <<"U+00A0">>),
               JsStr(<<"h", " ", "a">>),
               JsNum(0), JsNum(80) } }

\* the page is loaded with some body served at /client-config.json
ClientInit ==
  /\ ClientConfig = ClientConfigInitial
  /\ calls = [c \in Calls |-> NotCalled]
  /\ fetches = 0
  /\ served \in ServedBodies
  /\ IdleRoute
  /\ IdleTransform
  /\ PipeInit
  /\ IdleAdmin
  /\ IdleCors

\* loadClientConfig up to its first await: the value at once when
\* ClientConfig.ready, the fetch of /client-config.json otherwise
loadClientConfig(c) ==
  /\ calls[c].pc = "idle"
  /\ IF ClientConfig.ready
     THEN /\ calls' = [calls EXCEPT ![c] = [pc |-> "returned", result |-> ClientConfig.value]]
          /\ fetches' = fetches
     ELSE /\ calls' = [calls EXCEPT ![c].pc = "fetch"]
          /\ fetches' = fetches + 1
  /\ UNCHANGED <<ClientConfig, served>>
  /\ UNCHANGED <<pipeVars, routeVars, transformVars, adminVars, corsVars>>

\* the fetch settles: the call throws when the fetch is rejected or the
\* response is not ok, and goes on to res.json() otherwise
loadClientConfig_fetched(c, ok) ==
  /\ calls[c].pc = "fetch"
  /\ calls' = [calls EXCEPT ![c].pc = IF ok THEN "json" ELSE "thrown"]
  /\ UNCHANGED <<ClientConfig, fetches, served>>
  /\ UNCHANGED <<pipeVars, routeVars, transformVars, adminVars, corsVars>>

\* res.json() settles: the call throws when the body is no JSON, and when the
\* document is null, of which json.api_base_url cannot be read; otherwise it
\* sets ClientConfig.value and ClientConfig.ready and returns the value
loadClientConfig_parsed(c) ==
  LET value == [api_base_url |-> trim(JsString(JsOr(served.api_base_url, JsStr(<<>>))))]
  IN /\ calls[c].pc = "json"
     /\ IF served.valid /\ served.json /= "null"
        THEN /\ ClientConfig' = [ready |-> TRUE, value |-> value]
             /\ calls' = [calls EXCEPT ![c] = [pc |-> "returned", result |-> value]]
        ELSE /\ ClientConfig' = ClientConfig
             /\ calls' = [calls EXCEPT ![c].pc = "thrown"]
     /\ UNCHANGED <<fetches, served>>
     /\ UNCHANGED <<pipeVars, routeVars, transformVars, adminVars, corsVars>>

ClientNext ==
  \/ \E c \in Calls : loadClientConfig(c)
  \/ \E c \in Calls, ok \in BOOLEAN : loadClientConfig_fetched(c, ok)
  \/ \E c \in Calls : loadClientConfig_parsed(c)

ClientSpec == ClientInit /\ [][ClientNext]_vars

\* the calls that have returned
Returned == {c \in Calls : calls[c].pc = "returned"}

\* C21: over all the calls of loadClientConfig, also calls made before an
\* earlier one has completed, at most one fetch of /client-config.json is
\* issued, and all the calls return the same value.
C21_OnlyFirstCallFetches ==
  /\ fetches <= 1
  /\ \A c \in Returned, d \in Returned : calls[c].result = calls[d].result

\* what loadClientConfig does: a call made when ClientConfig.ready issues no
\* fetch and returns ClientConfig.value; a call made before that issues a fetch
\* of its own; the calls that return, return the same value.
C21_FetchesUntilReady ==
  [][\A c \in Calls :
       loadClientConfig(c) =>
         /\ ClientConfig.ready =>
              (fetches' = fetches /\ calls'[c].pc = "returned"
                 /\ calls'[c].result = ClientConfig.value)
         /\ ~ClientConfig.ready => fetches' = fetches + 1]_vars

C21_ReturnedValuesAgree ==
  \A c \in Returned, d \in Returned : calls[c].result = calls[d].result

====
